---- MODULE Spec2Model ----
(***************************************************************************)
(* Room-service ordering agent: the order validation engine                *)
(* (tools/order_validator.py, services/menu_suggestions.py), the order     *)
(* placer and its gateway (tools/order_placer.py,                          *)
(* external/room_service_api.py, db/orders.py) and the tool-calling loop   *)
(* (agent/nodes.py, agent/graph.py, main.py).                              *)
(*                                                                         *)
(* Conventions.  Optional[T] is the empty sequence (None) or the           *)
(* one-element sequence <<t>> (Some(t)).  Python lists are sequences.      *)
(* A call that can raise returns a record with a field "raises" naming     *)
(* the exception class ("" when it returns normally).                      *)
(***************************************************************************)
EXTENDS Integers, Sequences, FiniteSets, TLC

VARIABLES
  messages,                 \* OrderState["messages"], the checkpointed history
  validated_order,          \* OrderState["validated_order"]
  validation_result,        \* OrderState["validation_result"]
  sequential_error_count,   \* OrderState["sequential_error_count"] (checkpointed)
  pc,                       \* graph position: "idle", "tool_calling_llm", "tools", "END", "raised"
  raised,                   \* the exception graph.invoke raised to main.chat ("" if none)
  state,                    \* tool_node's input dict `state` (the node's own copy)
  result,                   \* tool_node's local list `result` of Commands
  next_call,                \* index into last_message.tool_calls of the next call of the batch
  ORDER_COUNTER,            \* db/orders.py global
  simulate_failures,        \* RoomServiceAPI._simulate_failures
  replies,                  \* number of reasoning-engine replies so far (bounded)
  calls,                    \* number of tool calls requested so far (bounded)
  log,                      \* history of tool-call outcomes and gateway calls (observation only)
  streak,                   \* tool failures in a row since the last success (observation only)
  sessions,                 \* the sessions of one process that run side by side, each with its own graph
  probe                     \* last direct call of a pure function and what it returned

vars == <<messages, validated_order, validation_result, sequential_error_count,
          pc, raised, state, result, next_call, ORDER_COUNTER, simulate_failures,
          replies, calls, log, streak, sessions, probe>>

sessionVars == <<messages, validated_order, validation_result, sequential_error_count,
                 pc, raised, state, result, next_call, ORDER_COUNTER, simulate_failures,
                 replies, calls, log, streak, sessions>>

-----------------------------------------------------------------------------
(* Bounds *)

MaxItems == 2        \* items per order
MaxBatch == 3        \* tool-call requests per reasoning-engine reply
MaxCalls == 3        \* tool-call requests per session
MaxReplies == 3      \* reasoning-engine replies per session
MaxSessions == 2     \* sessions that run side by side in one process
MaxPlacements == 2   \* order_placer calls per session that runs side by side with others

-----------------------------------------------------------------------------
(* Optional values *)

None == <<>>
Some(x) == <<x>>
Get(o) == o[1]

-----------------------------------------------------------------------------
(* The catalog (db/menu.py): the items, stock and modification policies    *)
(* that the specification and the tests name.  Prices are in cents.        *)

MENU_ITEMS ==
  [x \in {"Club Sandwich", "Still Water", "French Fries"} |->
     CASE x = "Club Sandwich" ->
            [name |-> x, price |-> 1500, modifications_allowed |-> TRUE,
             available_modifications |-> <<"extra bacon", "no tomato">>,
             preparation_time |-> 15, available_quantity |-> 10]
       [] x = "Still Water" ->
            [name |-> x, price |-> 300, modifications_allowed |-> FALSE,
             available_modifications |-> <<>>,
             preparation_time |-> 1, available_quantity |-> 20]
       [] x = "French Fries" ->
            [name |-> x, price |-> 600, modifications_allowed |-> FALSE,
             available_modifications |-> <<>>,
             preparation_time |-> 10, available_quantity |-> 5]]

\* MENU_ITEMS.get(name)
MenuGet(name) == IF name \in DOMAIN MENU_ITEMS THEN Some(MENU_ITEMS[name]) ELSE None

-----------------------------------------------------------------------------
(* Inputs *)

Names == {"Club Sandwich", "Still Water", "French Fries", "Caviar"}
Quantities == {-1, 1, 6}
ModLists == {<<>>, <<"extra bacon">>, <<"add pineapple", "extra bacon">>}

\* models/order.py OrderItem: no constraint on any field
OrderItems == [name : Names, quantity : Quantities, modifications : ModLists]

ItemLists == UNION {[1..n -> OrderItems] : n \in 0..MaxItems}

\* rooms a reasoning engine may put in a tool call
Rooms == {101, 121, 425}

\* rooms _validate_room is called with directly (tests/tools/test_order_validator.py)
RoomInputs == {-101, 0, 99, 100, 101, 120, 121, 199, 220, 315, 320, 321, 399, 400, 425}

\* the arguments of an order_validator tool call, before Order is constructed
OrderArgs == [room : Rooms, items : ItemLists]

\* details dicts OrderValidationResult is constructed with directly: a
\* ValidationError or a ValidationDetails, each room given or None
RoomFields == {None, Some("101")}
DetailsInputs ==
  {[valid_room |-> v, invalid_room |-> i, valid_items |-> <<>>, invalid_items |-> <<>>,
    suggestions |-> None] : v \in RoomFields, i \in RoomFields}
  \cup {[valid_room |-> v, valid_items |-> <<>>] : v \in RoomFields}

\* what SUGGESTIONS_LLM.invoke may do
EngineReplies == {"raise", "malformed", "empty", "no_fix", "fix"}

-----------------------------------------------------------------------------
(* util.py *)

Contains(seq, x) == \E i \in 1..Len(seq) : seq[i] = x

\* partition(pred, iterable), the predicate given as the set it accepts
partition(pred, seq) ==
  [true_list |-> SelectSeq(seq, LAMBDA x : x \in pred),
   false_list |-> SelectSeq(seq, LAMBDA x : x \notin pred)]

\* the elements of a list
Elements(seq) == {seq[i] : i \in 1..Len(seq)}

Max(a, b) == IF a >= b THEN a ELSE b

RECURSIVE SumPrice(_)
SumPrice(items) ==
  IF items = <<>> THEN 0
  ELSE LET item == Head(items)
           q == IF "valid_quantity" \in DOMAIN item THEN item.valid_quantity ELSE item.quantity
       IN  MENU_ITEMS[item.name].price * q + SumPrice(Tail(items))

\* as MaxPrep, but the preparation times are added up
RECURSIVE MaxPrep_sum(_)
MaxPrep_sum(items) ==
  IF items = <<>> THEN 0
  ELSE MENU_ITEMS[Head(items).name].preparation_time + MaxPrep_sum(Tail(items))

RECURSIVE MaxPrep(_)
MaxPrep(items) ==
  IF items = <<>> THEN 0
  ELSE Max(MENU_ITEMS[Head(items).name].preparation_time, MaxPrep(Tail(items)))

\* f"${total_price:.2f}" for an amount in cents
Digits2(n) == IF n < 10 THEN "0" \o ToString(n) ELSE ToString(n)
FormatPrice(cents) ==
  IF cents >= 0
    THEN "$" \o ToString(cents \div 100) \o "." \o Digits2(cents % 100)
    ELSE "$-" \o ToString((0 - cents) \div 100) \o "." \o Digits2((0 - cents) % 100)

calculate_order_details(items) ==
  IF \E i \in 1..Len(items) : items[i].name \notin DOMAIN MENU_ITEMS
    THEN [raises |-> "AssertionError"]
    ELSE [raises |-> "", total_price |-> FormatPrice(SumPrice(items)),
          max_preparation_time |-> MaxPrep(items)]

-----------------------------------------------------------------------------
(* models/order.py, models/order_validation.py *)

\* Order(room=..., items=...): Field(ge=100, le=399), Field(min_length=1)
Order(args) ==
  IF args.room >= 100 /\ args.room <= 399 /\ Len(args.items) >= 1
    THEN [raises |-> "", value |-> [room |-> args.room, items |-> args.items]]
    ELSE [raises |-> "ValidationError"]

ValidItem(name, valid_quantity, valid_modifications) ==
  [name |-> name, valid_modifications |-> valid_modifications,
   valid_quantity |-> valid_quantity]

\* InvalidItem with its field defaults: the two lists default to [], the
\* two quantities to None
InvalidItem(name, reason) ==
  [name |-> name, valid_modifications |-> Some(<<>>), valid_quantity |-> None,
   reason |-> reason, invalid_modifications |-> Some(<<>>), invalid_quantity |-> None]

SingleSuggestion(original_item, suggestion, fixed_item) ==
  [original_item |-> original_item, suggestion |-> suggestion, fixed_item |-> fixed_item]

\* v.get(key) on a details dict
DictGet(v, key) == IF key \in DOMAIN v THEN v[key] ELSE None

\* as validate_room_fields, but details with neither room are accepted
validate_room_fields_accepts_neither(v) ==
  LET valid_room == DictGet(v, "valid_room")
      invalid_room == DictGet(v, "invalid_room")
  IN  IF valid_room # None /\ invalid_room # None THEN "ValueError"
      ELSE ""

\* the field validator of OrderValidationResult.details
validate_room_fields(v) ==
  LET valid_room == DictGet(v, "valid_room")
      invalid_room == DictGet(v, "invalid_room")
  IN  IF valid_room # None /\ invalid_room # None THEN "ValueError"
      ELSE IF valid_room = None /\ invalid_room = None THEN "ValueError"
      ELSE ""

OrderValidationResult(status, response, details, total_price, preparation_time) ==
  IF validate_room_fields(details) # ""
    THEN [raises |-> validate_room_fields(details)]
    ELSE [raises |-> "", status |-> status, response |-> response, details |-> details,
          total_price |-> total_price, preparation_time |-> preparation_time]

\* as ToolMessage, but every message is addressed to the call with id 1
ToolMessage_to_first_call(content, tool_call_id) ==
  [type |-> "tool", content |-> content, tool_call_id |-> 1]

ToolMessage(content, tool_call_id) ==
  [type |-> "tool", content |-> content, tool_call_id |-> tool_call_id]

-----------------------------------------------------------------------------
(* tools/order_validator.py *)

_validate_room(room) ==
  IF ~(room >= 100 /\ room <= 399)
    THEN [raises |-> "AssertionError"]
    ELSE LET room_number_in_floor == room % 100
         IN  [raises |-> "", value |-> (0 <= room_number_in_floor /\ room_number_in_floor <= 20)]

ItemValidationResult(is_valid, valid_item, invalid_item) ==
  [is_valid |-> is_valid, valid_item |-> valid_item, invalid_item |-> invalid_item]

\* as _validate_item, but the modification policy is checked before the stock
_validate_item_policy_first(item) ==
  LET menu_item == MenuGet(item.name) IN
  IF menu_item = None
    THEN ItemValidationResult(FALSE, None,
           Some(InvalidItem(item.name, "NOT_ON_MENU")))
  ELSE IF item.modifications # <<>> /\ ~Get(menu_item).modifications_allowed
    THEN ItemValidationResult(FALSE, None,
           Some([InvalidItem(item.name, "MODIFICATIONS_NOT_ALLOWED") EXCEPT
                   !.valid_quantity = Some(item.quantity),
                   !.valid_modifications = Some(<<>>),
                   !.invalid_modifications = Some(item.modifications)]))
  ELSE IF item.quantity > Get(menu_item).available_quantity
    THEN ItemValidationResult(FALSE, None,
           Some([InvalidItem(item.name, "OUT_OF_STOCK") EXCEPT
                   !.valid_quantity = Some(Get(menu_item).available_quantity),
                   !.invalid_quantity = Some(item.quantity - Get(menu_item).available_quantity)]))
  ELSE LET parts == partition(Elements(Get(menu_item).available_modifications),
                              item.modifications)
       IN  IF item.modifications # <<>> /\ parts.false_list # <<>>
             THEN ItemValidationResult(FALSE, None,
                    Some([InvalidItem(item.name, "INVALID_MODIFICATIONS") EXCEPT
                            !.valid_quantity = Some(item.quantity),
                            !.valid_modifications = Some(parts.true_list),
                            !.invalid_modifications = Some(parts.false_list)]))
             ELSE ItemValidationResult(TRUE,
                    Some(ValidItem(item.name, item.quantity, item.modifications)), None)

\* as _validate_item, but an OUT_OF_STOCK item reports the whole requested
\* quantity as the invalid quantity
_validate_item_whole_quantity_invalid(item) ==
  LET menu_item == MenuGet(item.name) IN
  IF menu_item = None
    THEN ItemValidationResult(FALSE, None,
           Some(InvalidItem(item.name, "NOT_ON_MENU")))
  ELSE IF item.quantity > Get(menu_item).available_quantity
    THEN ItemValidationResult(FALSE, None,
           Some([InvalidItem(item.name, "OUT_OF_STOCK") EXCEPT
                   !.valid_quantity = Some(Get(menu_item).available_quantity),
                   !.invalid_quantity = Some(item.quantity)]))
  ELSE IF item.modifications # <<>> /\ ~Get(menu_item).modifications_allowed
    THEN ItemValidationResult(FALSE, None,
           Some([InvalidItem(item.name, "MODIFICATIONS_NOT_ALLOWED") EXCEPT
                   !.valid_quantity = Some(item.quantity),
                   !.valid_modifications = Some(<<>>),
                   !.invalid_modifications = Some(item.modifications)]))
  ELSE LET parts == partition(Elements(Get(menu_item).available_modifications),
                              item.modifications)
       IN  IF item.modifications # <<>> /\ parts.false_list # <<>>
             THEN ItemValidationResult(FALSE, None,
                    Some([InvalidItem(item.name, "INVALID_MODIFICATIONS") EXCEPT
                            !.valid_quantity = Some(item.quantity),
                            !.valid_modifications = Some(parts.true_list),
                            !.invalid_modifications = Some(parts.false_list)]))
             ELSE ItemValidationResult(TRUE,
                    Some(ValidItem(item.name, item.quantity, item.modifications)), None)

\* as _validate_item, but a MODIFICATIONS_NOT_ALLOWED item has no list of
\* valid modifications
_validate_item_no_valid_modifications(item) ==
  LET menu_item == MenuGet(item.name) IN
  IF menu_item = None
    THEN ItemValidationResult(FALSE, None,
           Some(InvalidItem(item.name, "NOT_ON_MENU")))
  ELSE IF item.quantity > Get(menu_item).available_quantity
    THEN ItemValidationResult(FALSE, None,
           Some([InvalidItem(item.name, "OUT_OF_STOCK") EXCEPT
                   !.valid_quantity = Some(Get(menu_item).available_quantity),
                   !.invalid_quantity = Some(item.quantity - Get(menu_item).available_quantity)]))
  ELSE IF item.modifications # <<>> /\ ~Get(menu_item).modifications_allowed
    THEN ItemValidationResult(FALSE, None,
           Some([InvalidItem(item.name, "MODIFICATIONS_NOT_ALLOWED") EXCEPT
                   !.valid_quantity = Some(item.quantity),
                   !.valid_modifications = None,
                   !.invalid_modifications = Some(item.modifications)]))
  ELSE LET parts == partition(Elements(Get(menu_item).available_modifications),
                              item.modifications)
       IN  IF item.modifications # <<>> /\ parts.false_list # <<>>
             THEN ItemValidationResult(FALSE, None,
                    Some([InvalidItem(item.name, "INVALID_MODIFICATIONS") EXCEPT
                            !.valid_quantity = Some(item.quantity),
                            !.valid_modifications = Some(parts.true_list),
                            !.invalid_modifications = Some(parts.false_list)]))
             ELSE ItemValidationResult(TRUE,
                    Some(ValidItem(item.name, item.quantity, item.modifications)), None)

_validate_item(item) ==
  LET menu_item == MenuGet(item.name) IN
  IF menu_item = None
    THEN ItemValidationResult(FALSE, None,
           Some(InvalidItem(item.name, "NOT_ON_MENU")))
  ELSE IF item.quantity > Get(menu_item).available_quantity
    THEN ItemValidationResult(FALSE, None,
           Some([InvalidItem(item.name, "OUT_OF_STOCK") EXCEPT
                   !.valid_quantity = Some(Get(menu_item).available_quantity),
                   !.invalid_quantity = Some(item.quantity - Get(menu_item).available_quantity)]))
  ELSE IF item.modifications # <<>> /\ ~Get(menu_item).modifications_allowed
    THEN ItemValidationResult(FALSE, None,
           Some([InvalidItem(item.name, "MODIFICATIONS_NOT_ALLOWED") EXCEPT
                   !.valid_quantity = Some(item.quantity),
                   !.valid_modifications = Some(<<>>),
                   !.invalid_modifications = Some(item.modifications)]))
  ELSE LET parts == partition(Elements(Get(menu_item).available_modifications),
                              item.modifications)
       IN  IF item.modifications # <<>> /\ parts.false_list # <<>>
             THEN ItemValidationResult(FALSE, None,
                    Some([InvalidItem(item.name, "INVALID_MODIFICATIONS") EXCEPT
                            !.valid_quantity = Some(item.quantity),
                            !.valid_modifications = Some(parts.true_list),
                            !.invalid_modifications = Some(parts.false_list)]))
             ELSE ItemValidationResult(TRUE,
                    Some(ValidItem(item.name, item.quantity, item.modifications)), None)

\* the loop of _run over order.items: the valid and the invalid items, in order
RECURSIVE ValidItemsOf(_)
ValidItemsOf(items) ==
  IF items = <<>> THEN <<>>
  ELSE LET r == _validate_item(Head(items))
       IN  (IF r.is_valid THEN <<Get(r.valid_item)>> ELSE <<>>) \o ValidItemsOf(Tail(items))

RECURSIVE InvalidItemsOf(_)
InvalidItemsOf(items) ==
  IF items = <<>> THEN <<>>
  ELSE LET r == _validate_item(Head(items))
       IN  (IF r.is_valid THEN <<>> ELSE <<Get(r.invalid_item)>>) \o InvalidItemsOf(Tail(items))

-----------------------------------------------------------------------------
(* services/menu_suggestions.py *)

\* what SUGGESTIONS_LLM.invoke(prompt) returns for the items in the prompt:
\* a SuggestionsResponse (one suggestion per item, with or without a fixed
\* item, or none at all), something that is not a SuggestionsResponse, or
\* an exception
SUGGESTIONS_LLM(engine, others) ==
  CASE engine = "raise" -> [raises |-> "Exception"]
    [] engine = "malformed" -> [raises |-> "", is_suggestions_response |-> FALSE]
    [] engine = "empty" ->
         [raises |-> "", is_suggestions_response |-> TRUE, suggestions |-> <<>>]
    [] engine = "no_fix" ->
         [raises |-> "", is_suggestions_response |-> TRUE,
          suggestions |-> [i \in 1..Len(others) |->
             SingleSuggestion(others[i], "No suggestions available", None)]]
    [] engine = "fix" ->
         [raises |-> "", is_suggestions_response |-> TRUE,
          suggestions |-> [i \in 1..Len(others) |->
             SingleSuggestion(others[i], "Suggested by the manager",
               Some([name |-> "Club Sandwich", quantity |-> 1, modifications |-> <<>>]))]]

\* the loop over mods_not_allowed
\* as DeterministicSuggestions, but the fixed item keeps the requested modifications
RECURSIVE DeterministicSuggestions_keeps_modifications(_)
DeterministicSuggestions_keeps_modifications(mods_not_allowed) ==
  IF mods_not_allowed = <<>> THEN <<>>
  ELSE LET invalid_item == Head(mods_not_allowed)
       IN  (IF invalid_item.valid_quantity = None
              THEN <<>>
              ELSE <<SingleSuggestion(invalid_item,
                       "This item does not allow modifications, so please remove the modifications.",
                       Some([name |-> invalid_item.name,
                             quantity |-> Get(invalid_item.valid_quantity),
                             modifications |-> Get(invalid_item.invalid_modifications)]))>>)
           \o DeterministicSuggestions_keeps_modifications(Tail(mods_not_allowed))

RECURSIVE DeterministicSuggestions(_)
DeterministicSuggestions(mods_not_allowed) ==
  IF mods_not_allowed = <<>> THEN <<>>
  ELSE LET invalid_item == Head(mods_not_allowed)
       IN  (IF invalid_item.valid_quantity = None
              THEN <<>>
              ELSE <<SingleSuggestion(invalid_item,
                       "This item does not allow modifications, so please remove the modifications.",
                       Some([name |-> invalid_item.name,
                             quantity |-> Get(invalid_item.valid_quantity),
                             modifications |-> <<>>]))>>)
           \o DeterministicSuggestions(Tail(mods_not_allowed))

\* value: Optional[list[SingleSuggestion]]; llm_invoked: whether
\* SUGGESTIONS_LLM.invoke was called
\* as get_menu_suggestions, but a malformed reply returns the suggestions made so far
get_menu_suggestions_partial(a_validation_result, engine) ==
  IF a_validation_result.status = "Success"
    THEN [raises |-> "", value |-> None, llm_invoked |-> FALSE]
  ELSE IF "invalid_items" \notin DOMAIN a_validation_result.details
          \/ Len(a_validation_result.details.invalid_items) = 0
    THEN [raises |-> "", value |-> None, llm_invoked |-> FALSE]
  ELSE
    LET parts == partition({item \in Elements(a_validation_result.details.invalid_items) :
                              item.reason = "MODIFICATIONS_NOT_ALLOWED"},
                           a_validation_result.details.invalid_items)
        mods_not_allowed == parts.true_list
        others == parts.false_list
        suggestions == DeterministicSuggestions(mods_not_allowed)
        response == SUGGESTIONS_LLM(engine, others)
    IN  IF Len(others) > 0
          THEN IF response.raises # ""
                 THEN [raises |-> response.raises, llm_invoked |-> TRUE]
               ELSE IF ~response.is_suggestions_response
                 THEN [raises |-> "", value |-> Some(suggestions), llm_invoked |-> TRUE]
               ELSE [raises |-> "", value |-> Some(suggestions \o response.suggestions),
                     llm_invoked |-> TRUE]
          ELSE [raises |-> "", value |-> Some(suggestions), llm_invoked |-> FALSE]

get_menu_suggestions(a_validation_result, engine) ==
  IF a_validation_result.status = "Success"
    THEN [raises |-> "", value |-> None, llm_invoked |-> FALSE]
  ELSE IF "invalid_items" \notin DOMAIN a_validation_result.details
          \/ Len(a_validation_result.details.invalid_items) = 0
    THEN [raises |-> "", value |-> None, llm_invoked |-> FALSE]
  ELSE
    LET parts == partition({item \in Elements(a_validation_result.details.invalid_items) :
                              item.reason = "MODIFICATIONS_NOT_ALLOWED"},
                           a_validation_result.details.invalid_items)
        mods_not_allowed == parts.true_list
        others == parts.false_list
        suggestions == DeterministicSuggestions(mods_not_allowed)
        response == SUGGESTIONS_LLM(engine, others)
    IN  IF Len(others) > 0
          THEN IF response.raises # ""
                 THEN [raises |-> response.raises, llm_invoked |-> TRUE]
               ELSE IF ~response.is_suggestions_response
                 THEN [raises |-> "", value |-> None, llm_invoked |-> TRUE]
               ELSE [raises |-> "", value |-> Some(suggestions \o response.suggestions),
                     llm_invoked |-> TRUE]
          ELSE [raises |-> "", value |-> Some(suggestions), llm_invoked |-> FALSE]

-----------------------------------------------------------------------------
(* tools/order_validator.py: the two outcomes and _run *)

Command(update) == [update |-> update]

_handle_valid_order(tool_call_id, order, valid_items) ==
  LET order_details == calculate_order_details(valid_items)
      details == [valid_room |-> Some(ToString(order.room)), valid_items |-> valid_items]
      res == OrderValidationResult("Success",
               [kind |-> "summary", items |-> valid_items],
               details, Some(order_details.total_price),
               Some(order_details.max_preparation_time))
  IN  IF order_details.raises # "" THEN [raises |-> order_details.raises, llm_invoked |-> FALSE]
      ELSE IF res.raises # "" THEN [raises |-> res.raises, llm_invoked |-> FALSE]
      ELSE [raises |-> "", llm_invoked |-> FALSE,
            command |-> Command([validated_order |-> Some(order),
                                 validation_result |-> Some(res),
                                 messages |-> <<ToolMessage(res, tool_call_id)>>])]

\* as _handle_invalid_order, but the update does not clear validated_order
_handle_invalid_order_keeps_order(tool_call_id, is_valid_room, order, valid_items, invalid_items, engine) ==
  LET details(suggestions) ==
        [valid_room |-> IF is_valid_room THEN Some(ToString(order.room)) ELSE None,
         invalid_room |-> IF ~is_valid_room THEN Some(ToString(order.room)) ELSE None,
         valid_items |-> valid_items,
         invalid_items |-> invalid_items,
         suggestions |-> suggestions]
      error_messages ==
        (IF ~is_valid_room THEN <<"Room number is invalid">> ELSE <<>>)
        \o (IF invalid_items # <<>> THEN <<"Some requested items cannot be prepared">> ELSE <<>>)
      response(with_suggestions) ==
        [kind |-> "explanation", error_messages |-> error_messages,
         refers_to_suggestions |-> with_suggestions]
      first == OrderValidationResult("Error", response(FALSE), details(None), None, None)
      got == get_menu_suggestions(first, engine)
      \* try/except Exception around get_menu_suggestions
      suggestions == IF got.raises # "" THEN None ELSE got.value
      second == IF suggestions # None /\ Len(Get(suggestions)) > 0
                  THEN OrderValidationResult("Error", response(TRUE), details(suggestions),
                                             None, None)
                  ELSE first
  IN  IF first.raises # "" THEN [raises |-> first.raises, llm_invoked |-> FALSE]
      ELSE IF second.raises # "" THEN [raises |-> second.raises, llm_invoked |-> got.llm_invoked]
      ELSE [raises |-> "", llm_invoked |-> got.llm_invoked,
            command |-> Command([validation_result |-> Some(second),
                                 validated_order |-> Some(order),
                                 messages |-> <<ToolMessage(second, tool_call_id)>>])]

_handle_invalid_order(tool_call_id, is_valid_room, order, valid_items, invalid_items, engine) ==
  LET details(suggestions) ==
        [valid_room |-> IF is_valid_room THEN Some(ToString(order.room)) ELSE None,
         invalid_room |-> IF ~is_valid_room THEN Some(ToString(order.room)) ELSE None,
         valid_items |-> valid_items,
         invalid_items |-> invalid_items,
         suggestions |-> suggestions]
      error_messages ==
        (IF ~is_valid_room THEN <<"Room number is invalid">> ELSE <<>>)
        \o (IF invalid_items # <<>> THEN <<"Some requested items cannot be prepared">> ELSE <<>>)
      response(with_suggestions) ==
        [kind |-> "explanation", error_messages |-> error_messages,
         refers_to_suggestions |-> with_suggestions]
      first == OrderValidationResult("Error", response(FALSE), details(None), None, None)
      got == get_menu_suggestions(first, engine)
      \* try/except Exception around get_menu_suggestions
      suggestions == IF got.raises # "" THEN None ELSE got.value
      second == IF suggestions # None /\ Len(Get(suggestions)) > 0
                  THEN OrderValidationResult("Error", response(TRUE), details(suggestions),
                                             None, None)
                  ELSE first
  IN  IF first.raises # "" THEN [raises |-> first.raises, llm_invoked |-> FALSE]
      ELSE IF second.raises # "" THEN [raises |-> second.raises, llm_invoked |-> got.llm_invoked]
      ELSE [raises |-> "", llm_invoked |-> got.llm_invoked,
            command |-> Command([validation_result |-> Some(second),
                                 validated_order |-> None,
                                 messages |-> <<ToolMessage(second, tool_call_id)>>])]

\* as OrderValidatorTool_run, but an order without invalid items is accepted
\* whatever its room
OrderValidatorTool_run_ignores_room(tool_call_id, order, engine) ==
  LET is_valid_room == _validate_room(order.room)
      valid_items == ValidItemsOf(order.items)
      invalid_items == InvalidItemsOf(order.items)
  IN  IF is_valid_room.raises # ""
        THEN [raises |-> is_valid_room.raises, llm_invoked |-> FALSE]
      ELSE IF invalid_items = <<>>
        THEN _handle_valid_order(tool_call_id, order, valid_items)
      ELSE _handle_invalid_order(tool_call_id, is_valid_room.value, order,
                                 valid_items, invalid_items, engine)

OrderValidatorTool_run(tool_call_id, order, engine) ==
  LET is_valid_room == _validate_room(order.room)
      valid_items == ValidItemsOf(order.items)
      invalid_items == InvalidItemsOf(order.items)
  IN  IF is_valid_room.raises # ""
        THEN [raises |-> is_valid_room.raises, llm_invoked |-> FALSE]
      ELSE IF is_valid_room.value /\ invalid_items = <<>>
        THEN _handle_valid_order(tool_call_id, order, valid_items)
      ELSE _handle_invalid_order(tool_call_id, is_valid_room.value, order,
                                 valid_items, invalid_items, engine)

\* tool.invoke for order_validator: the arguments are parsed into
\* OrderValidationSchema (which constructs the Order) before _run
OrderValidatorTool_invoke(tool_call_id, args, engine) ==
  LET order == Order(args)
  IN  IF order.raises # ""
        THEN [raises |-> order.raises, llm_invoked |-> FALSE]
        ELSE OrderValidatorTool_run(tool_call_id, order.value, engine)

-----------------------------------------------------------------------------
(* db/orders.py, external/room_service_api.py *)

Pad4(n) ==
  IF n < 10 THEN "000" \o ToString(n)
  ELSE IF n < 100 THEN "00" \o ToString(n)
  ELSE IF n < 1000 THEN "0" \o ToString(n)
  ELSE ToString(n)

\* get_order_id() with ORDER_COUNTER = counter before the call
get_order_id(counter) ==
  [ORDER_COUNTER |-> counter + 1, value |-> "ORDER-" \o Pad4(counter + 1)]

\* what _simulate_failure_events may do in one call
FailureEvents(sim) ==
  IF sim THEN {"none", "RoomServiceAPIError", "KitchenOverloadedError"} ELSE {"none"}

\* as place_order, but the details are those of the order's first item
place_order_first_item_details(order, event, counter) ==
  IF event # "none"
    THEN [raises |-> "TypeError", ORDER_COUNTER |-> counter]
    ELSE LET order_id == get_order_id(counter)
             order_details == calculate_order_details(<<Head(order.items)>>)
         IN  IF order_details.raises # ""
               THEN [raises |-> order_details.raises, ORDER_COUNTER |-> order_id.ORDER_COUNTER]
               ELSE [raises |-> "", ORDER_COUNTER |-> order_id.ORDER_COUNTER,
                     value |-> [status |-> "Success",
                                message |-> "Order successfully placed",
                                order_id |-> order_id.value,
                                estimated_delivery_time_minutes |-> order_details.max_preparation_time,
                                total_price |-> order_details.total_price]]

\* RoomServiceAPI.place_order.  The handler is written
\*   except RoomServiceAPIError | KitchenOverloadedError as e
\* and a union of classes is not a class that inherits from BaseException:
\* when _simulate_failure_events raises, matching the handler raises
\* TypeError, which leaves place_order.
place_order(order, event, counter) ==
  IF event # "none"
    THEN [raises |-> "TypeError", ORDER_COUNTER |-> counter]
    ELSE LET order_id == get_order_id(counter)
             order_details == calculate_order_details(order.items)
         IN  IF order_details.raises # ""
               THEN [raises |-> order_details.raises, ORDER_COUNTER |-> order_id.ORDER_COUNTER]
               ELSE [raises |-> "", ORDER_COUNTER |-> order_id.ORDER_COUNTER,
                     value |-> [status |-> "Success",
                                message |-> "Order successfully placed",
                                order_id |-> order_id.value,
                                estimated_delivery_time_minutes |-> order_details.max_preparation_time,
                                total_price |-> order_details.total_price]]

-----------------------------------------------------------------------------
(* tools/order_placer.py *)

\* as OrderPlacerTool_run, but a placed order is no longer validated
OrderPlacerTool_run_consumes_order(tool_call_id, st, event, counter) ==
  IF st.validated_order = None \/ st.validation_result = None
    THEN [raises |-> "ValueError", gateway_called |-> FALSE, ORDER_COUNTER |-> counter]
    ELSE LET res == place_order(Get(st.validated_order), event, counter)
         IN  IF res.raises # ""
               THEN [raises |-> res.raises, gateway_called |-> TRUE,
                     ORDER_COUNTER |-> res.ORDER_COUNTER]
             ELSE IF res.value.status = "Success"
               THEN [raises |-> "", gateway_called |-> TRUE,
                     ORDER_COUNTER |-> res.ORDER_COUNTER,
                     response |-> res.value,
                     command |-> Command([validated_order |-> None,
                        validation_result |-> None,
                        messages |-> <<ToolMessage(
                        [kind |-> "placed", order_id |-> res.value.order_id,
                         minutes |-> res.value.estimated_delivery_time_minutes],
                        tool_call_id)>>])]
             ELSE [raises |-> "", gateway_called |-> TRUE,
                   ORDER_COUNTER |-> res.ORDER_COUNTER,
                   response |-> res.value,
                   command |-> Command([messages |-> <<ToolMessage(
                      [kind |-> "failed", message |-> res.value.message],
                      tool_call_id)>>])]

\* OrderPlacerTool._run; st is the injected state.  gateway_called tells
\* whether self.api.place_order was reached.
OrderPlacerTool_run(tool_call_id, st, event, counter) ==
  IF st.validated_order = None \/ st.validation_result = None
    THEN [raises |-> "ValueError", gateway_called |-> FALSE, ORDER_COUNTER |-> counter]
    ELSE LET res == place_order(Get(st.validated_order), event, counter)
         IN  IF res.raises # ""
               THEN [raises |-> res.raises, gateway_called |-> TRUE,
                     ORDER_COUNTER |-> res.ORDER_COUNTER]
             ELSE IF res.value.status = "Success"
               THEN [raises |-> "", gateway_called |-> TRUE,
                     ORDER_COUNTER |-> res.ORDER_COUNTER,
                     response |-> res.value,
                     command |-> Command([messages |-> <<ToolMessage(
                        [kind |-> "placed", order_id |-> res.value.order_id,
                         minutes |-> res.value.estimated_delivery_time_minutes],
                        tool_call_id)>>])]
             ELSE [raises |-> "", gateway_called |-> TRUE,
                   ORDER_COUNTER |-> res.ORDER_COUNTER,
                   response |-> res.value,
                   command |-> Command([messages |-> <<ToolMessage(
                      [kind |-> "failed", message |-> res.value.message],
                      tool_call_id)>>])]

-----------------------------------------------------------------------------
(* tools/__init__.py *)

TOOLS == <<"order_validator", "order_placer">>

\* as get_tool_by_name, but every name resolves to a tool
get_tool_by_name_any(name) ==
  [raises |-> "", value |-> name]

get_tool_by_name(name) ==
  IF Contains(TOOLS, name) THEN [raises |-> "", value |-> name]
  ELSE [raises |-> "ValueError"]

-----------------------------------------------------------------------------
(* The session: agent/graph.py, agent/nodes.py, main.py *)

\* the order arguments the reasoning engine puts into order_validator calls
\* of a session: two acceptable orders (one of them with two items of
\* different preparation times), an order with a MODIFICATIONS_NOT_ALLOWED
\* item and an item that is not on the menu, and an order for a room outside
\* the declared range
SessionOrderArgs ==
  { [room |-> 101,
     items |-> <<[name |-> "Club Sandwich", quantity |-> 1, modifications |-> <<>>],
                 [name |-> "French Fries", quantity |-> 2, modifications |-> <<>>]>>],
    [room |-> 220,
     items |-> <<[name |-> "Still Water", quantity |-> 1, modifications |-> <<>>]>>],
    [room |-> 101,
     items |-> <<[name |-> "Still Water", quantity |-> 1, modifications |-> <<"extra bacon">>],
                 [name |-> "Caviar", quantity |-> 1, modifications |-> <<>>]>>],
    [room |-> 425,
     items |-> <<[name |-> "Club Sandwich", quantity |-> 1, modifications |-> <<>>]>>] }

\* a tool-call request without its id: the tool's name and its arguments
\* (Some(order arguments) for order_validator, None for the others)
ToolCallRequests ==
  {[name |-> "order_validator", args |-> Some(o)] : o \in SessionOrderArgs}
  \cup {[name |-> "order_placer", args |-> None],
        [name |-> "room_cleaner", args |-> None]}

\* what SUGGESTIONS_LLM.invoke does during a session
SessionEngineReplies == {"raise", "fix"}

Batches(n) == UNION {[1..k -> ToolCallRequests] : k \in 0..n}

Min(a, b) == IF a <= b THEN a ELSE b

Unrecoverable == "AssertionError: Unrecoverable error. Please contact the hotel reception and speak with a human representative."

\* the sessions that run side by side: every create_graph() call makes a
\* graph with a checkpointer and a thread id of its own
SessionIds == 1..MaxSessions

\* create_graph's initial values, and where the session's thread stands:
\* "idle" between graph.invoke calls, or inside get_order_id before the
\* load, the store or the formatting of ORDER_COUNTER
NewSession ==
  [validated_order |-> None, validation_result |-> None, sequential_error_count |-> 0,
   at |-> "idle", loaded |-> 0, order_ids |-> <<>>, placer_calls |-> 0]

\* create_graph: graph.update_state(values={...})
SessionInit ==
  /\ messages = <<>>
  /\ validated_order = None
  /\ validation_result = None
  /\ sequential_error_count = 0
  /\ pc = "idle"
  /\ raised = ""
  /\ state = [validated_order |-> None, validation_result |-> None,
              sequential_error_count |-> 0]
  /\ result = <<>>
  /\ next_call = 1
  /\ ORDER_COUNTER = 0
  /\ simulate_failures \in BOOLEAN
  /\ replies = 0
  /\ calls = 0
  /\ log = <<>>
  /\ streak = 0
  /\ sessions = [s \in SessionIds |-> NewSession]

Init == SessionInit /\ probe = [op |-> "none"]

\* main.chat: one iteration of the input loop that reaches graph.invoke.
\* The first input is preceded by the system prompt.  An exception of the
\* previous graph.invoke has been printed and the loop goes on.
chat ==
  /\ pc \in {"idle", "END", "raised"}
  /\ replies < MaxReplies
  /\ messages' = messages
                 \o (IF messages = <<>> THEN <<[type |-> "system"]>> ELSE <<>>)
                 \o <<[type |-> "human"]>>
  /\ pc' = "tool_calling_llm"
  /\ raised' = ""
  /\ UNCHANGED <<validated_order, validation_result, sequential_error_count, state,
                 result, next_call, ORDER_COUNTER, simulate_failures, replies, calls,
                 log, streak, sessions, probe>>

\* as should_call_tool, but the turn ends whatever the reply requests
should_call_tool_never(last_message) ==
  "END"

\* should_call_tool
should_call_tool(last_message) ==
  IF Len(last_message.tool_calls) > 0 THEN "tools" ELSE "END"

\* tool_calling_llm_node followed by the conditional edge should_call_tool;
\* entering "tools" hands the node the checkpointed state as its input
tool_calling_llm_node ==
  /\ pc = "tool_calling_llm"
  /\ \E batch \in Batches(IF replies < MaxReplies
                            THEN Min(MaxBatch, MaxCalls - calls) ELSE 0) :
       LET response == [type |-> "ai",
                        tool_calls |-> [i \in 1..Len(batch) |->
                           [name |-> batch[i].name, args |-> batch[i].args,
                            id |-> calls + i]]]
       IN  /\ messages' = Append(messages, response)
           /\ pc' = should_call_tool(response)
           /\ calls' = calls + Len(batch)
  /\ replies' = replies + 1
  /\ state' = [validated_order |-> validated_order,
               validation_result |-> validation_result,
               sequential_error_count |-> sequential_error_count]
  /\ result' = <<>>
  /\ next_call' = 1
  /\ UNCHANGED <<validated_order, validation_result, sequential_error_count, raised,
                 ORDER_COUNTER, simulate_failures, log, streak, sessions, probe>>

\* the limit in tool_node's assert state["sequential_error_count"] < 3
FatalLimit == 3

\* The graph applies the Commands a node returns, in order: "messages" is
\* reduced by add_messages (appended), the other keys are overwritten.
RECURSIVE ApplyCommands(_, _)
ApplyCommands(values, commands) ==
  IF commands = <<>> THEN values
  ELSE LET u == Head(commands).update
       IN  ApplyCommands(
             [messages |-> values.messages \o u.messages,
              validated_order |-> IF "validated_order" \in DOMAIN u
                                    THEN u.validated_order ELSE values.validated_order,
              validation_result |-> IF "validation_result" \in DOMAIN u
                                      THEN u.validation_result ELSE values.validation_result],
             Tail(commands))

\* as NodeRaised, but the Commands collected before the exception are applied
NodeRaised_applies_collected(values, commands) ==
  ApplyCommands(values, commands)

\* A node that raises returns nothing: the Commands tool_node has collected
\* in `result` so far have not been handed to the graph, and the values of
\* the session stay as they are.
NodeRaised(values, commands) ==
  values

\* validated_order and validation_result have no reducer: two Commands of
\* one step that both write them are either applied in order or refused by
\* the graph with InvalidUpdateError, depending on the graph library
ConflictingWrites(commands) ==
  Cardinality({i \in 1..Len(commands) : "validated_order" \in DOMAIN commands[i].update}) > 1

\* tool.invoke({**tool_call, "args": {**state_args, **tool_call["args"]}}):
\* what the call raises or returns, whether it reached the gateway, the
\* order id it was issued and ORDER_COUNTER after it
invoke(tool, tool_call, st, engine, event, counter) ==
  IF tool = "order_validator"
    THEN LET r == OrderValidatorTool_invoke(tool_call.id, Get(tool_call.args), engine)
         IN  [raises |-> r.raises,
              commands |-> IF r.raises = "" THEN <<r.command>> ELSE <<>>,
              gateway_called |-> FALSE, order_id |-> "", eta |-> None, total_price |-> None,
              ORDER_COUNTER |-> counter]
    ELSE LET r == OrderPlacerTool_run(tool_call.id, st, event, counter)
             good == r.raises = "" /\ r.response.status = "Success"
         IN  [raises |-> r.raises,
              commands |-> IF r.raises = "" THEN <<r.command>> ELSE <<>>,
              gateway_called |-> r.gateway_called,
              order_id |-> IF good THEN r.response.order_id ELSE "",
              eta |-> IF good THEN Some(r.response.estimated_delivery_time_minutes) ELSE None,
              total_price |-> IF good THEN Some(r.response.total_price) ELSE None,
              ORDER_COUNTER |-> r.ORDER_COUNTER]

\* what the log keeps of one tool call: the call, the reply it belongs to,
\* the state it was given, its outcome, the kind of message the node keeps
\* for it, and the node's error count before and after it
LogEntry(tool_call, st, response, count) ==
  [tool |-> tool_call.name, id |-> tool_call.id, dispatched |-> TRUE,
   raises |-> response.raises,
   verdict |-> IF tool_call.name = "order_validator" /\ response.raises = ""
                 THEN Get(response.commands[1].update.validation_result).status
                 ELSE "",
   had_order |-> st.validated_order # None,
   had_status |-> IF st.validation_result # None
                    THEN Get(st.validation_result).status ELSE "",
   gateway_called |-> response.gateway_called,
   order_id |-> response.order_id,
   placed |-> IF response.order_id # "" THEN st.validated_order ELSE None,
   eta |-> response.eta,
   total_price |-> response.total_price,
   had_result |-> st.validation_result,
   reply |-> IF response.raises # "" THEN "error"
             ELSE IF tool_call.name = "order_validator" THEN "validation"
             ELSE response.commands[1].update.messages[1].content.kind,
   batch |-> replies,
   count_before |-> st.sequential_error_count,
   count_after |-> count]

\* One iteration of tool_node's loop over last_message.tool_calls; the
\* iteration for the last tool call also returns `result`, which the graph
\* applies before it follows the edge back to tool_calling_llm.  Every tool
\* of the batch is given `state`, the node's input; the assignments to
\* state["sequential_error_count"] change that input only, since no Command
\* of `result` writes the key.
tool_node ==
  /\ pc = "tools"
  /\ \E last_message \in {messages[Len(messages)]} :
     \E tool_call \in {last_message.tool_calls[next_call]} :
     \E tool \in {get_tool_by_name(tool_call.name)} :
     IF tool.raises # ""
       THEN \* get_tool_by_name is outside the try: the exception leaves the node
            /\ pc' = "raised"
            /\ raised' = tool.raises
            /\ log' = Append(log, [tool |-> tool_call.name, id |-> tool_call.id,
                                   dispatched |-> FALSE, raises |-> tool.raises,
                                   verdict |-> "", had_order |-> FALSE, had_status |-> "",
                                   gateway_called |-> FALSE,
                                   order_id |-> "", placed |-> None,
                                   eta |-> None, total_price |-> None,
                                   had_result |-> None, reply |-> "",
                                   batch |-> replies,
                                   count_before |-> state.sequential_error_count,
                                   count_after |-> state.sequential_error_count])
            /\ \E kept \in {NodeRaised([messages |-> messages,
                                         validated_order |-> validated_order,
                                         validation_result |-> validation_result],
                                        result)} :
                 /\ messages' = kept.messages
                 /\ validated_order' = kept.validated_order
                 /\ validation_result' = kept.validation_result
            /\ UNCHANGED <<sequential_error_count, state, result, next_call,
                           ORDER_COUNTER, streak>>
       ELSE
         \E engine \in SessionEngineReplies, event \in FailureEvents(simulate_failures) :
         \E response \in {invoke(tool.value, tool_call, state, engine, event, ORDER_COUNTER)} :
         \E ok \in {response.raises = ""} :
         \E count \in {IF ok THEN 0 ELSE state.sequential_error_count + 1} :
         \E new_result \in
              {IF ok THEN result \o response.commands
               ELSE Append(result, Command([messages |-> <<ToolMessage(
                      [kind |-> "error", error |-> response.raises], tool_call.id)>>]))} :
           /\ log' = Append(log, LogEntry(tool_call, state, response, count))
           /\ streak' = IF ok THEN 0 ELSE streak + 1
           /\ ORDER_COUNTER' = response.ORDER_COUNTER
           /\ state' = [state EXCEPT !.sequential_error_count = count]
           /\ UNCHANGED sequential_error_count
           /\ IF ~ok /\ ~(count < FatalLimit)
                THEN \* the assert in the except block fails and leaves the node
                     /\ pc' = "raised"
                     /\ raised' = Unrecoverable
                     /\ \E kept \in {NodeRaised([messages |-> messages,
                                                  validated_order |-> validated_order,
                                                  validation_result |-> validation_result],
                                                 result)} :
                          /\ messages' = kept.messages
                          /\ validated_order' = kept.validated_order
                          /\ validation_result' = kept.validation_result
                     /\ UNCHANGED <<result, next_call>>
              ELSE IF next_call < Len(last_message.tool_calls)
                THEN /\ result' = new_result
                     /\ next_call' = next_call + 1
                     /\ UNCHANGED <<messages, validated_order, validation_result, pc, raised>>
              ELSE
                /\ result' = new_result
                /\ UNCHANGED next_call
                /\ \/ \E applied \in {ApplyCommands([messages |-> messages,
                                                    validated_order |-> validated_order,
                                                    validation_result |-> validation_result],
                                                   new_result)} :
                      /\ messages' = applied.messages
                      /\ validated_order' = applied.validated_order
                      /\ validation_result' = applied.validation_result
                      /\ pc' = "tool_calling_llm"
                      /\ UNCHANGED raised
                   \/ /\ ConflictingWrites(new_result)
                      /\ pc' = "raised"
                      /\ raised' = "InvalidUpdateError"
                      /\ UNCHANGED <<messages, validated_order, validation_result>>
  /\ UNCHANGED <<simulate_failures, replies, calls, sessions, probe>>

SessionNext == chat \/ tool_calling_llm_node \/ tool_node

-----------------------------------------------------------------------------
(* Direct calls of the validation engine's functions *)

call_validate_room ==
  /\ probe.op = "none"
  /\  \E room \in RoomInputs :
    probe' = [op |-> "_validate_room", room |-> room, returned |-> _validate_room(room)]

call_validate_item ==
  /\ probe.op = "none"
  /\  \E item \in OrderItems :
    probe' = [op |-> "_validate_item", item |-> item, returned |-> _validate_item(item)]

call_order_validator ==
  /\ probe.op = "none"
  /\  \E args \in OrderArgs, engine \in EngineReplies :
    probe' = [op |-> "order_validator", args |-> args, engine |-> engine,
              returned |-> OrderValidatorTool_invoke(0, args, engine)]

call_OrderValidationResult ==
  /\ probe.op = "none"
  /\  \E status \in {"Success", "Error"}, details \in DetailsInputs :
    probe' = [op |-> "OrderValidationResult", details |-> details,
              returned |-> OrderValidationResult(status, "", details, None, None)]

ValidationNext ==
  /\ \/ call_validate_room
     \/ call_validate_item
     \/ call_order_validator
     \/ call_OrderValidationResult
  /\ UNCHANGED sessionVars

-----------------------------------------------------------------------------
(* Sessions of one process that run side by side.  Each has the state of   *)
(* its own graph; db/orders.py's ORDER_COUNTER is the module's global.  A  *)
(* thread may be preempted between the load and the store of               *)
(* `ORDER_COUNTER += 1` and before the global is read again for the id.    *)

otherVars == <<messages, validated_order, validation_result, sequential_error_count,
               pc, raised, state, result, next_call, simulate_failures, replies, calls,
               log, streak, probe>>

\* graph.invoke of session s for a reply that requests one order_validator
\* call: tool_node returns the tool's Command, which the session's graph
\* applies, or - when the call raised - an error message only
session_order_validator(s) ==
  /\ sessions[s].at = "idle"
  /\ \E args \in SessionOrderArgs, engine \in SessionEngineReplies :
     \E r \in {OrderValidatorTool_invoke(0, args, engine)} :
       sessions' = [sessions EXCEPT ![s] =
         IF r.raises # "" THEN @
         ELSE [@ EXCEPT !.validated_order = r.command.update.validated_order,
                        !.validation_result = r.command.update.validation_result]]
  /\ UNCHANGED <<ORDER_COUNTER, otherVars>>

\* graph.invoke of session s for a reply that requests one order_placer
\* call, up to the call of get_order_id in place_order (the gateway of the
\* tool registry simulates no failures)
session_order_placer(s) ==
  /\ sessions[s].at = "idle"
  /\ sessions[s].placer_calls < MaxPlacements
  /\ sessions' = [sessions EXCEPT ![s] =
       IF @.validated_order = None \/ @.validation_result = None
         THEN [@ EXCEPT !.placer_calls = @ + 1]
         ELSE [@ EXCEPT !.placer_calls = @ + 1, !.at = "load"]]
  /\ UNCHANGED <<ORDER_COUNTER, otherVars>>

\* ORDER_COUNTER += 1: the load of the global
get_order_id_load(s) ==
  /\ sessions[s].at = "load"
  /\ sessions' = [sessions EXCEPT ![s] = [@ EXCEPT !.loaded = ORDER_COUNTER, !.at = "store"]]
  /\ UNCHANGED <<ORDER_COUNTER, otherVars>>

\* ORDER_COUNTER += 1: the store of the incremented value
get_order_id_store(s) ==
  /\ sessions[s].at = "store"
  /\ ORDER_COUNTER' = sessions[s].loaded + 1
  /\ sessions' = [sessions EXCEPT ![s] = [@ EXCEPT !.at = "format"]]
  /\ UNCHANGED otherVars

\* return f"ORDER-{ORDER_COUNTER:04d}", and the rest of place_order and of
\* the batch: the GoodOrderResponse becomes one tool message
get_order_id_format(s) ==
  /\ sessions[s].at = "format"
  /\ sessions' = [sessions EXCEPT ![s] =
       [@ EXCEPT !.order_ids = Append(@, "ORDER-" \o Pad4(ORDER_COUNTER)), !.at = "idle"]]
  /\ UNCHANGED <<ORDER_COUNTER, otherVars>>

ConcurrentNext ==
  \E s \in SessionIds :
    \/ session_order_validator(s)
    \/ session_order_placer(s)
    \/ get_order_id_load(s)
    \/ get_order_id_store(s)
    \/ get_order_id_format(s)

Next == SessionNext

Spec == Init /\ [][Next]_vars

ValidationSpec == Init /\ [][ValidationNext]_vars

ConcurrentSpec == Init /\ [][ConcurrentNext]_vars

-----------------------------------------------------------------------------
(* Properties.  The expected verdicts are written from the catalog, not     *)
(* from the validator.                                                     *)

InDeclaredRange(r) == 100 <= r /\ r <= 399
RoomOk(r) == InDeclaredRange(r) /\ 0 <= r % 100 /\ r % 100 <= 20

OnMenu(item) == item.name \in DOMAIN MENU_ITEMS
InStock(item) == item.quantity <= MENU_ITEMS[item.name].available_quantity
PolicyOk(item) == item.modifications = <<>> \/ MENU_ITEMS[item.name].modifications_allowed
ModsOk(item) ==
  \A i \in 1..Len(item.modifications) :
    \E k \in 1..Len(MENU_ITEMS[item.name].available_modifications) :
      MENU_ITEMS[item.name].available_modifications[k] = item.modifications[i]

ExpectedVerdict(item) ==
  IF ~OnMenu(item) THEN "NOT_ON_MENU"
  ELSE IF ~InStock(item) THEN "OUT_OF_STOCK"
  ELSE IF ~PolicyOk(item) THEN "MODIFICATIONS_NOT_ALLOWED"
  ELSE IF ~ModsOk(item) THEN "INVALID_MODIFICATIONS"
  ELSE "valid"

AllItemsOk(items) == \A i \in 1..Len(items) : ExpectedVerdict(items[i]) = "valid"

PlacerEntries == {i \in 1..Len(log) : log[i].tool = "order_placer" /\ log[i].dispatched}

\* C1: the gateway is called only by an order_placer call whose state holds
\* a validated order and a validation result with status Success; any other
\* order_placer call raises before the gateway is called and is issued no
\* order id; and whenever the session holds a validated order, it holds a
\* Success result with it.
C1_PlaceOnlyValidated ==
  /\ \A i \in PlacerEntries :
       /\ log[i].gateway_called => (log[i].had_order /\ log[i].had_status = "Success")
       /\ ~(log[i].had_order /\ log[i].had_status = "Success")
            => (log[i].raises = "ValueError" /\ ~log[i].gateway_called /\ log[i].order_id = "")
  /\ \A i \in 1..Len(log) : log[i].gateway_called => log[i].tool = "order_placer"
  /\ validated_order # None
       => (validation_result # None /\ Get(validation_result).status = "Success")
  /\ pc = "tools"
       => (state.validated_order = validated_order
           /\ state.validation_result = validation_result)

\* a session in which one order_placer call was refused and another one
\* reached the gateway and got an order id
C1_Witness ==
  /\ \E i \in PlacerEntries : log[i].raises = "ValueError" /\ ~log[i].gateway_called
  /\ \E i \in PlacerEntries : log[i].gateway_called /\ log[i].order_id # ""

\* C2: the step in which a tool call fails as the third failure in a row
\* (with no successful tool call in between, in one batch or over several)
\* ends the loop with the fatal "contact a human" error, and once three
\* failures in a row have happened no further tool call is dispatched.
C2_FatalAfterThreeFailures ==
  [][/\ (streak' >= FatalLimit /\ streak' # streak)
          => (pc' = "raised" /\ raised' = Unrecoverable)
     /\ streak >= FatalLimit => log' = log]_vars

\* C3: the consecutive-error counter always equals the number of tool
\* failures since the last successful tool call (or the session's start):
\* the counter tool_node works on while it dispatches, the session's
\* counter otherwise.
C3_CounterIsFailureStreak ==
  /\ pc = "tools" => state.sequential_error_count = streak
  /\ pc \in {"idle", "tool_calling_llm", "END"} => sequential_error_count = streak

ValidatorEntriesBefore(j) == {i \in 1..(j - 1) : log[i].tool = "order_validator"}
LastOf(S) == CHOOSE i \in S : \A k \in S : k <= i

\* C4: after a validation attempt that did not end in a Success verdict
\* (an Error verdict, or a call that raised), no order is sent to the
\* gateway until an order is validated successfully again: every gateway
\* call that has an order_validator call before it has a Success verdict as
\* the latest of them.
C4_FailedValidationBlocksPlacement ==
  \A j \in 1..Len(log) :
    (log[j].gateway_called /\ ValidatorEntriesBefore(j) # {})
      => log[LastOf(ValidatorEntriesBefore(j))].verdict = "Success"

ProbeRun == probe.op = "order_validator" /\ Order(probe.args).raises = ""
ProbeResult == Get(probe.returned.command.update.validation_result)

\* C5: order_validator returns Success exactly when the room is valid and
\* every item is valid, Error otherwise, and its update sets validated_order
\* (to the order) exactly when the status is Success.
C5_SuccessIffAllValid ==
  ProbeRun =>
    /\ probe.returned.raises = ""
    /\ ProbeResult.status \in {"Success", "Error"}
    /\ ProbeResult.status = "Success"
         <=> (RoomOk(probe.args.room) /\ AllItemsOk(probe.args.items))
    /\ probe.returned.command.update.validated_order =
         IF ProbeResult.status = "Success" THEN Some(Order(probe.args).value) ELSE None

\* an order for a valid room with one valid and one invalid item: Error,
\* with the valid item reported and no validated order
C5_Witness ==
  /\ ProbeRun
  /\ RoomOk(probe.args.room)
  /\ \E i, k \in 1..Len(probe.args.items) :
       /\ ExpectedVerdict(probe.args.items[i]) = "valid"
       /\ ExpectedVerdict(probe.args.items[k]) # "valid"
  /\ ProbeResult.status = "Error"
  /\ ProbeResult.details.valid_items # <<>>
  /\ probe.returned.command.update.validated_order = None

ItemOutcome(r) == IF r.is_valid THEN "valid" ELSE Get(r.invalid_item).reason

\* C6: _validate_item returns exactly one of a valid item and an invalid
\* item, and the outcome is that of the first failing check in the order
\* existence, stock, modification policy, modification validity; the item
\* is valid only if all four checks pass.
C6_FirstFailingCheck ==
  probe.op = "_validate_item" =>
    /\ probe.returned.is_valid <=> probe.returned.valid_item # None
    /\ probe.returned.is_valid <=> probe.returned.invalid_item = None
    /\ ItemOutcome(probe.returned) = ExpectedVerdict(probe.item)
    /\ probe.returned.is_valid
         => (OnMenu(probe.item) /\ InStock(probe.item)
             /\ PolicyOk(probe.item) /\ ModsOk(probe.item))

\* an over-stock item with modifications on an item that allows none is
\* reported OUT_OF_STOCK
C6_Witness ==
  /\ probe.op = "_validate_item"
  /\ OnMenu(probe.item) /\ ~InStock(probe.item) /\ ~PolicyOk(probe.item)
  /\ ItemOutcome(probe.returned) = "OUT_OF_STOCK"

\* C7: for every integer room number r, _validate_room returns True if
\* 100 <= r <= 399 and 0 <= r mod 100 <= 20, and returns False otherwise,
\* also for r outside the declared range.
C7_RoomPredicate ==
  probe.op = "_validate_room" =>
    /\ probe.returned.raises = ""
    /\ probe.returned.value = RoomOk(probe.room)

ProbeItems == {probe.args.items[i] : i \in 1..Len(probe.args.items)}
ModsNotAllowedItems == {item \in ProbeItems : ExpectedVerdict(item) = "MODIFICATIONS_NOT_ALLOWED"}
OtherInvalidItems ==
  {item \in ProbeItems : ExpectedVerdict(item) \notin {"valid", "MODIFICATIONS_NOT_ALLOWED"}}
EngineWellFormed == probe.engine \in {"empty", "no_fix", "fix"}

\* the result carries, for the item, a suggestion of the same item with the
\* requested quantity and no modifications
HasDeterministicSuggestion(item) ==
  /\ ProbeResult.details.suggestions # None
  /\ \E k \in 1..Len(Get(ProbeResult.details.suggestions)) :
       LET sg == Get(ProbeResult.details.suggestions)[k]
       IN  /\ sg.original_item.name = item.name
           /\ sg.original_item.reason = "MODIFICATIONS_NOT_ALLOWED"
           /\ sg.fixed_item = Some([name |-> item.name, quantity |-> item.quantity,
                                    modifications |-> <<>>])

\* C8 as stated: every MODIFICATIONS_NOT_ALLOWED item of a validation gets
\* its deterministic suggestion in the result, whatever the other invalid
\* items are and whatever the reasoning engine does; if all invalid items
\* are MODIFICATIONS_NOT_ALLOWED the reasoning engine is not invoked.
C8_AlwaysDeterministicSuggestion ==
  (ProbeRun /\ ProbeResult.status = "Error") =>
    /\ \A item \in ModsNotAllowedItems : HasDeterministicSuggestion(item)
    /\ OtherInvalidItems = {} => ~probe.returned.llm_invoked

\* C8 amended: every MODIFICATIONS_NOT_ALLOWED item gets its deterministic
\* suggestion when the order has no other kind of invalid item or the
\* reasoning engine's reply is well formed; when the order has other invalid
\* items and the reasoning-engine call raises or its reply is malformed, the
\* result carries no suggestions at all; if all invalid items are
\* MODIFICATIONS_NOT_ALLOWED the reasoning engine is not invoked.
C8_DeterministicSuggestionUnlessEngineFails ==
  (ProbeRun /\ ProbeResult.status = "Error") =>
    /\ (OtherInvalidItems = {} \/ EngineWellFormed)
         => \A item \in ModsNotAllowedItems : HasDeterministicSuggestion(item)
    /\ (OtherInvalidItems # {} /\ ~EngineWellFormed)
         => ProbeResult.details.suggestions = None
    /\ OtherInvalidItems = {} => ~probe.returned.llm_invoked
    /\ OtherInvalidItems # {} => probe.returned.llm_invoked

\* an order with a MODIFICATIONS_NOT_ALLOWED item and another invalid item,
\* a well-formed engine reply, and the deterministic suggestion in the result
C8_Witness ==
  /\ ProbeRun
  /\ ProbeResult.status = "Error"
  /\ OtherInvalidItems # {}
  /\ EngineWellFormed
  /\ \E item \in ModsNotAllowedItems : HasDeterministicSuggestion(item)

RECURSIVE ExpectedValid(_)
ExpectedValid(items) ==
  IF items = <<>> THEN <<>>
  ELSE (IF ExpectedVerdict(Head(items)) = "valid"
          THEN <<[name |-> Head(items).name, valid_modifications |-> Head(items).modifications,
                  valid_quantity |-> Head(items).quantity]>>
          ELSE <<>>) \o ExpectedValid(Tail(items))

RECURSIVE ExpectedInvalid(_)
ExpectedInvalid(items) ==
  IF items = <<>> THEN <<>>
  ELSE (IF ExpectedVerdict(Head(items)) # "valid"
          THEN <<[name |-> Head(items).name, reason |-> ExpectedVerdict(Head(items))]>>
          ELSE <<>>) \o ExpectedInvalid(Tail(items))

EnrichmentFailed == probe.returned.llm_invoked /\ ~EngineWellFormed

\* C9: order_validator never raises for an order that could be constructed,
\* and when the suggestion call raises or its reply is malformed the update
\* is the Error update of the order - the room classified as it is, the
\* valid and the invalid items as they are, validated_order cleared - with
\* no suggestions attached.
C9_EnrichmentFailureKeepsVerdict ==
  ProbeRun =>
    /\ probe.returned.raises = ""
    /\ EnrichmentFailed =>
         /\ ProbeResult.status = "Error"
         /\ ProbeResult.details.suggestions = None
         /\ ~ProbeResult.response.refers_to_suggestions
         /\ ProbeResult.details.valid_room =
              (IF RoomOk(probe.args.room) THEN Some(ToString(probe.args.room)) ELSE None)
         /\ ProbeResult.details.invalid_room =
              (IF RoomOk(probe.args.room) THEN None ELSE Some(ToString(probe.args.room)))
         /\ ProbeResult.details.valid_items = ExpectedValid(probe.args.items)
         /\ [k \in 1..Len(ProbeResult.details.invalid_items) |->
               [name |-> ProbeResult.details.invalid_items[k].name,
                reason |-> ProbeResult.details.invalid_items[k].reason]]
              = ExpectedInvalid(probe.args.items)
         /\ probe.returned.command.update.validated_order = None

\* the suggestion call raised for an order that also has a
\* MODIFICATIONS_NOT_ALLOWED item, and the Error result has no suggestions
C9_Witness ==
  /\ ProbeRun
  /\ probe.engine = "raise"
  /\ probe.returned.llm_invoked
  /\ ModsNotAllowedItems # {}
  /\ probe.returned.raises = ""
  /\ ProbeResult.status = "Error"
  /\ ProbeResult.details.suggestions = None

\* C10: a call of the gateway's place operation never raises - a simulated
\* failure comes back as a BadResponse - so the order_placer call that made
\* it does not fail and the consecutive-error counter is not incremented.
C10_GatewayNeverRaises ==
  \A i \in 1..Len(log) :
    log[i].gateway_called
      => (log[i].raises = "" /\ log[i].count_after <= log[i].count_before)

\* the order_placer calls whose gateway call did not accept the order
GatewayFailures == {i \in PlacerEntries : log[i].gateway_called /\ log[i].order_id = ""}

ProbeInvalidItem == Get(probe.returned.invalid_item)
Stock(item) == MENU_ITEMS[item.name].available_quantity

\* C12: an item rejected as OUT_OF_STOCK carries valid_quantity = the
\* catalog's stock and invalid_quantity = requested quantity - stock, which
\* is strictly positive, so the two add up to the requested quantity.
C12_OutOfStockQuantities ==
  (probe.op = "_validate_item" /\ ItemOutcome(probe.returned) = "OUT_OF_STOCK") =>
    /\ ProbeInvalidItem.valid_quantity = Some(Stock(probe.item))
    /\ ProbeInvalidItem.invalid_quantity = Some(probe.item.quantity - Stock(probe.item))
    /\ Get(ProbeInvalidItem.invalid_quantity) > 0
    /\ Get(ProbeInvalidItem.valid_quantity) + Get(ProbeInvalidItem.invalid_quantity)
         = probe.item.quantity

\* six French Fries with five in stock: five valid, one invalid
C12_Witness ==
  /\ probe.op = "_validate_item"
  /\ probe.item.name = "French Fries" /\ probe.item.quantity = 6
  /\ ItemOutcome(probe.returned) = "OUT_OF_STOCK"
  /\ ProbeInvalidItem.valid_quantity = Some(5)
  /\ ProbeInvalidItem.invalid_quantity = Some(1)

RECURSIVE ExpectedCents(_, _)
ExpectedCents(items, n) ==
  IF n = 0 THEN 0
  ELSE ExpectedCents(items, n - 1) + items[n].quantity * MENU_ITEMS[items[n].name].price

ExpectedPrep(items) ==
  CHOOSE t \in {MENU_ITEMS[items[i].name].preparation_time : i \in 1..Len(items)} :
    \A i \in 1..Len(items) : MENU_ITEMS[items[i].name].preparation_time <= t

\* an amount of cents as a price with two decimals
ExpectedPrice(cents) ==
  LET a == IF cents < 0 THEN 0 - cents ELSE cents
  IN  "$" \o (IF cents < 0 THEN "-" ELSE "") \o ToString(a \div 100) \o "."
      \o ToString((a % 100) \div 10) \o ToString(a % 10)

\* C14: a Success result has total_price = the sum over the accepted items
\* of catalog unit price x accepted quantity, and preparation_time = the
\* maximum of the accepted items' catalog preparation times; an Error
\* result has neither.
C14_PriceIsSumPrepIsMax ==
  ProbeRun =>
    /\ ProbeResult.status = "Success" =>
         /\ ProbeResult.total_price
              = Some(ExpectedPrice(ExpectedCents(probe.args.items, Len(probe.args.items))))
         /\ ProbeResult.preparation_time = Some(ExpectedPrep(probe.args.items))
         /\ [i \in 1..Len(ProbeResult.details.valid_items) |->
               ProbeResult.details.valid_items[i].valid_quantity]
              = [i \in 1..Len(probe.args.items) |-> probe.args.items[i].quantity]
    /\ ProbeResult.status = "Error" =>
         /\ ProbeResult.total_price = None
         /\ ProbeResult.preparation_time = None

\* six Club Sandwiches (15 minutes) and one portion of French Fries (10
\* minutes): $96.00 and 15 minutes
C14_Witness ==
  /\ ProbeRun
  /\ ProbeResult.status = "Success"
  /\ probe.args.items = <<[name |-> "Club Sandwich", quantity |-> 6, modifications |-> <<>>],
                          [name |-> "French Fries", quantity |-> 1, modifications |-> <<>>]>>
  /\ ProbeResult.total_price = Some("$96.00")
  /\ ProbeResult.preparation_time = Some(15)

\* exactly one of valid_room and invalid_room is populated
OneRoomPopulated(details) ==
  (DictGet(details, "valid_room") # None) # (DictGet(details, "invalid_room") # None)

\* C15: every validation result order_validator builds - on the success
\* path, on the error path, and on the error path with suggestions attached
\* - has exactly one of valid_room and invalid_room populated, and
\* constructing a result is rejected with an error exactly when both or
\* neither are populated.
C15_ExactlyOneRoomField ==
  /\ ProbeRun =>
       /\ probe.returned.raises = ""
       /\ OneRoomPopulated(ProbeResult.details)
       /\ (DictGet(ProbeResult.details, "valid_room") # None) <=> RoomOk(probe.args.room)
  /\ probe.op = "OrderValidationResult" =>
       /\ probe.returned.raises # "" <=> ~OneRoomPopulated(probe.details)
       /\ probe.returned.raises = "" => probe.returned.details = probe.details

\* an order for room 121 with an item that gets a suggestion: the Error
\* result with suggestions attached names the room as invalid only
C15_Witness ==
  /\ ProbeRun
  /\ probe.args.room = 121
  /\ ProbeResult.status = "Error"
  /\ ProbeResult.details.suggestions # None
  /\ ProbeResult.details.invalid_room = Some("121")
  /\ ProbeResult.details.valid_room = None

\* C16: requested quantities are strictly positive: an order with an item
\* of quantity <= 0 is never validated Success, so every accepted item of a
\* validated order has a quantity > 0 and the total price of a validated
\* order is not negative.
C16_QuantitiesPositive ==
  (ProbeRun /\ probe.returned.raises = "" /\ ProbeResult.status = "Success") =>
    /\ \A i \in 1..Len(probe.args.items) : probe.args.items[i].quantity > 0
    /\ \A i \in 1..Len(ProbeResult.details.valid_items) :
         ProbeResult.details.valid_items[i].valid_quantity > 0
    /\ ExpectedCents(probe.args.items, Len(probe.args.items)) >= 0
    /\ ProbeResult.total_price
         = Some(ExpectedPrice(ExpectedCents(probe.args.items, Len(probe.args.items))))

\* the order_placer calls that the gateway accepted
Placements == {i \in PlacerEntries : log[i].order_id # ""}

\* C17: when an order that was validated Success is placed successfully,
\* the gateway's response carries an order id, an ETA equal to the
\* preparation_time of the stored validation result - the maximum
\* preparation time of the order's items - and a total price equal to the
\* validation result's total_price.
C17_PlacementMatchesValidation ==
  \A i \in Placements :
    /\ log[i].had_result # None /\ log[i].placed # None
    /\ Get(log[i].had_result).status = "Success"
    /\ Get(log[i].had_result).details.valid_room = Some(ToString(Get(log[i].placed).room))
    /\ log[i].eta = Get(log[i].had_result).preparation_time
    /\ log[i].eta = Some(ExpectedPrep(Get(log[i].placed).items))
    /\ log[i].total_price = Get(log[i].had_result).total_price
    /\ log[i].total_price
         = Some(ExpectedPrice(ExpectedCents(Get(log[i].placed).items,
                                            Len(Get(log[i].placed).items))))

\* the order of a Club Sandwich and two French Fries was validated and
\* placed: 15 minutes and $27.00, after another order had been validated
\* earlier in the session
C17_Witness ==
  \E i \in Placements :
    /\ Len(Get(log[i].placed).items) = 2
    /\ log[i].eta = Some(15)
    /\ log[i].total_price = Some("$27.00")
    /\ \E k \in 1..(i - 1) :
         /\ log[k].tool = "order_validator" /\ log[k].verdict = "Success"
         /\ \E j \in (k + 1)..(i - 1) :
              log[j].tool = "order_validator" /\ log[j].verdict = "Success"

\* the order ids issued in the process: (session, position) of each
IssuedIds == {<<s, i>> : s \in SessionIds, i \in 1..MaxPlacements}
               \cap {p \in SessionIds \X (1..MaxPlacements) :
                       p[2] <= Len(sessions[p[1]].order_ids)}

SessionFields(x) == <<x.validated_order, x.validation_result, x.sequential_error_count>>

\* C18: sessions that run side by side share no mutable state: under every
\* interleaving, each successful placement gets an order id different from
\* every other order id issued in the process, and a step of one session
\* never changes another session's validated order, validation result or
\* error counter.
C18_SessionsIndependent ==
  /\ [](\A p, q \in IssuedIds :
          p # q => sessions[p[1]].order_ids[p[2]] # sessions[q[1]].order_ids[q[2]])
  /\ [][\A s, t \in SessionIds :
          (s # t /\ sessions'[s] # sessions[s])
            => SessionFields(sessions'[t]) = SessionFields(sessions[t])]_vars

\* the order_validator calls that returned an update, earlier than call j
\* in the same reply's batch
UpdatesBeforeInBatch(j) ==
  {k \in 1..(j - 1) : /\ log[k].batch = log[j].batch
                       /\ log[k].tool = "order_validator"
                       /\ log[k].raises = ""}

\* C19: within one batch the update of each successful tool call is applied
\* before the next call of the batch runs: an order_placer call that follows
\* order_validator calls of its own batch is given the state the latest of
\* them left - it has a validated order, and reaches the gateway, exactly
\* when that validation ended in Success.
C19_BatchUpdatesVisible ==
  \A j \in PlacerEntries :
    UpdatesBeforeInBatch(j) # {} =>
      LET k == LastOf(UpdatesBeforeInBatch(j))
      IN  /\ log[j].had_order <=> log[k].verdict = "Success"
          /\ log[j].gateway_called <=> log[k].verdict = "Success"

\* one iteration of tool_node's loop, the tool call it is about, and what
\* the log keeps of it
DispatchStep == pc = "tools" /\ log' # log
ThisCall == messages[Len(messages)].tool_calls[next_call]
Outcome == log'[Len(log')]
FatalLimitReached == pc' = "raised" /\ raised' = Unrecoverable
IsToolError(m) == "kind" \in DOMAIN m.content /\ m.content.kind = "error"

\* the iteration handles the next requested call, and no other
InRequestOrder ==
  /\ Len(log') = Len(log) + 1
  /\ Outcome.id = ThisCall.id
  /\ Outcome.tool = ThisCall.name
  /\ Len(result) = next_call - 1

\* the iteration adds exactly one message, addressed to the call: the
\* tool's response if the call returned, a tool-error message naming the
\* exception if it raised; and dispatch goes on with the next requested
\* call, or the node returns its list after the last one
OneMessageForThisCall ==
  /\ Len(result') = next_call
  /\ result' = Append(result, result'[next_call])
  /\ Len(result'[next_call].update.messages) = 1
  /\ LET m == result'[next_call].update.messages[1]
     IN  /\ m.type = "tool"
         /\ m.tool_call_id = ThisCall.id
         /\ IsToolError(m) <=> Outcome.raises # ""
         /\ IsToolError(m) => m.content.error = Outcome.raises
         /\ (~IsToolError(m) /\ ThisCall.name = "order_validator")
              => m.content.status = Outcome.verdict
         /\ (~IsToolError(m) /\ ThisCall.name = "order_placer")
              => (m.content.kind = "placed" /\ m.content.order_id = Outcome.order_id)
  /\ IF next_call < Len(messages[Len(messages)].tool_calls)
       THEN pc' = "tools" /\ next_call' = next_call + 1
       ELSE pc' # "tools"

\* C20 as stated: a batch handles the requested calls one at a time in the
\* order of the reply and, unless the fatal limit is reached, produces
\* exactly one message per requested call, addressed to the call's id and
\* in request order - the tool's response, or a tool-error message - and
\* goes on with the next call.
C20_OneMessagePerRequestedCall ==
  [][DispatchStep => (InRequestOrder /\ (~FatalLimitReached => OneMessageForThisCall))]_vars

\* C20 amended: the same for every requested call that names a registered
\* tool; a call that names no registered tool ends the batch without a
\* message (the lookup failure leaves the node).
C20_OneMessagePerKnownCall ==
  [][DispatchStep =>
       /\ InRequestOrder
       /\ (~FatalLimitReached /\ Contains(TOOLS, ThisCall.name)) => OneMessageForThisCall
       /\ ~Contains(TOOLS, ThisCall.name) => (result' = result /\ pc' = "raised")]_vars

\* a batch of three calls has returned three messages in request order - a
\* tool-error message, a tool response, a tool-error message - and the
\* history ends with the reply and the three messages
C20_Witness ==
  /\ pc = "tool_calling_llm"
  /\ Len(result) = 3
  /\ Len(messages) >= 4
  /\ messages[Len(messages) - 3].type = "ai"
  /\ IsToolError(result[1].update.messages[1])
  /\ ~IsToolError(result[2].update.messages[1])
  /\ IsToolError(result[3].update.messages[1])
  /\ ~ConflictingWrites(result)
  /\ \A i \in 1..3 :
       /\ messages[Len(messages) - 3 + i] = result[i].update.messages[1]
       /\ result[i].update.messages[1].tool_call_id
            = messages[Len(messages) - 3].tool_calls[i].id

\* the last message of the history is a reasoning-engine reply, and the
\* number of tool calls it requests
LastIsReply == messages # <<>> /\ messages[Len(messages)].type = "ai"
Requested == Len(messages[Len(messages)].tool_calls)

\* where the graph is, and what it is there for
TurnPositions ==
  /\ pc \in {"idle", "tool_calling_llm", "tools", "END", "raised"}
  /\ (pc = "tools") => (LastIsReply /\ Requested >= 1 /\ next_call \in 1..Requested)
  /\ (pc = "END") => (LastIsReply /\ Requested = 0)

\* the moves of the graph
TurnMoves ==
  /\ (pc \in {"idle", "END", "raised"} /\ pc' # pc)
       => (pc' = "tool_calling_llm" /\ messages'[Len(messages')].type = "human")
  /\ (pc = "tool_calling_llm")
       => (/\ pc' \in {"tools", "END"}
           /\ messages'[Len(messages')].type = "ai"
           /\ (pc' = "END") <=> (Len(messages'[Len(messages')].tool_calls) = 0)
           /\ (pc' = "tools") <=> (Len(messages'[Len(messages')].tool_calls) >= 1))
  /\ (pc = "tools")
       => (/\ pc' \in {"tools", "tool_calling_llm", "raised"}
           /\ (pc' = "tools") => (next_call < Requested /\ next_call' = next_call + 1)
           /\ (pc' = "tool_calling_llm") => (next_call = Requested /\ raised' = "")
           /\ (pc' = "raised") => (raised' # ""))

\* C21: a turn starts in "tool_calling_llm"; a reply without tool-call
\* requests leads to END and a reply with at least one to "tools"; after a
\* batch is dispatched the graph is back in "tool_calling_llm" (a batch
\* that aborts leaves the graph with the exception instead); a turn ends
\* normally exactly by a reply without requests; and the graph is in
\* "tools" only while the last message of the history is a reply with at
\* least one request.
C21_TurnStateMachine == []TurnPositions /\ [][TurnMoves]_vars

\* a turn that dispatched a batch, came back to the reasoning engine and
\* ended with a reply without requests
C21_Witness ==
  /\ pc = "END"
  /\ Len(messages) >= 3
  /\ messages[Len(messages) - 1].type = "tool"
  /\ Requested = 0
  /\ log # <<>>

\* the calls whose name is no registered tool
UnknownCalls == {i \in 1..Len(log) : ~Contains(TOOLS, log[i].tool)}

\* what the iteration for a call with an unknown name does
UnknownToolAborts ==
  (DispatchStep /\ ~Contains(TOOLS, ThisCall.name)) =>
    /\ pc' = "raised" /\ raised' = "ValueError"
    /\ ~Outcome.dispatched /\ Outcome.id = ThisCall.id
    /\ result' = result
    /\ messages' = messages
    /\ state' = state
    /\ sequential_error_count' = sequential_error_count
    /\ streak' = streak
    /\ Outcome.count_after = Outcome.count_before
    /\ <<validated_order', validation_result', ORDER_COUNTER'>>
         = <<validated_order, validation_result, ORDER_COUNTER>>

\* C22: a tool-call request that names no registered tool aborts the batch
\* at that call with an error: no tool-error message is produced for it,
\* the consecutive-error counter is not incremented for it, and no later
\* tool call of the batch is executed.
C22_UnknownToolIsFatal ==
  /\ [][UnknownToolAborts]_vars
  /\ [](\A i \in UnknownCalls :
          /\ ~log[i].dispatched /\ log[i].raises = "ValueError" /\ log[i].reply = ""
          /\ \A j \in 1..Len(log) : log[j].batch = log[i].batch => j <= i)

\* a batch of three calls whose second names an unknown tool: the first
\* call ran, the batch aborted at the second, the third was never run
C22_Witness ==
  /\ pc = "raised" /\ raised = "ValueError"
  /\ Requested = 3 /\ next_call = 2
  /\ Len(result) = 1
  /\ log # <<>> /\ ~log[Len(log)].dispatched
  /\ Contains(TOOLS, messages[Len(messages)].tool_calls[3].name)

\* an order_placer call that returned: its update is one tool message
\* addressed to the call, and nothing else
PlacerUpdateIsOneMessage ==
  (DispatchStep /\ ThisCall.name = "order_placer" /\ Outcome.raises = "") =>
    /\ Len(result') = next_call
    /\ DOMAIN result'[next_call].update = {"messages"}
    /\ Len(result'[next_call].update.messages) = 1
    /\ result'[next_call].update.messages[1].type = "tool"
    /\ result'[next_call].update.messages[1].tool_call_id = ThisCall.id

\* a batch that requests order_placer calls only leaves the validated
\* order and the validation result as they were
PlacerBatchKeepsOrder ==
  (pc = "tools" /\ \A i \in 1..Requested :
                     messages[Len(messages)].tool_calls[i].name = "order_placer")
    => (validated_order' = validated_order /\ validation_result' = validation_result)

\* no order_validator call was requested in the batches from call i's to
\* call j's
NoValidationFromTo(i, j) ==
  \A k \in 1..Len(log) :
    log[k].tool = "order_validator"
      => (log[k].batch < log[i].batch \/ log[k].batch > log[j].batch)

\* after a placement, a further order_placer call is given the same order,
\* reaches the gateway and - when the gateway call returns - places the
\* same order under another order id; no order id is issued twice
RepeatedPlacement ==
  /\ \A i \in Placements : \A j \in PlacerEntries :
       (i < j /\ NoValidationFromTo(i, j)) =>
         /\ log[j].had_order /\ log[j].had_result = log[i].had_result
         /\ log[j].gateway_called
         /\ log[j].raises = "" =>
              /\ log[j].order_id # "" /\ log[j].order_id # log[i].order_id
              /\ log[j].placed = log[i].placed
  /\ \A i, j \in Placements : i # j => log[i].order_id # log[j].order_id

\* C23: order_placer never modifies validated_order or validation_result,
\* also when the gateway accepts the order: its update is exactly one tool
\* message.  So the order stays validated after a placement, and a further
\* order_placer call places the same order again under a new order id.
C23_PlacerKeepsOrderValidated ==
  /\ [][PlacerUpdateIsOneMessage /\ PlacerBatchKeepsOrder]_vars
  /\ []RepeatedPlacement

\* the same order was placed twice under two order ids, and the session
\* still holds it as validated
C23_Witness ==
  /\ pc \in {"tool_calling_llm", "END"}
  /\ validated_order # None
  /\ \E i, j \in Placements :
       /\ i < j
       /\ log[i].placed = log[j].placed
       /\ log[j].placed = validated_order
       /\ log[i].order_id = "ORDER-0001" /\ log[j].order_id = "ORDER-0002"

\* the step in which a batch aborts: an exception leaves tool_node (the
\* graph refusing the list the node returned is not such a step)
BatchAborts == pc = "tools" /\ pc' = "raised" /\ raised' # "InvalidUpdateError"

\* the ids of the calls the last reply requests
RequestedIds == {messages[Len(messages)].tool_calls[k].id : k \in 1..Requested}

\* an aborting step applies nothing: the session's values are those the
\* node was given when the batch started, and the history still ends with
\* the reply that requested the batch
AbortAppliesNothing ==
  BatchAborts =>
    /\ raised' \in {Unrecoverable, "ValueError"}
    /\ messages' = messages
    /\ validated_order' = state.validated_order /\ validated_order' = validated_order
    /\ validation_result' = state.validation_result
    /\ validation_result' = validation_result
    /\ sequential_error_count' = sequential_error_count
    /\ ORDER_COUNTER' = ORDER_COUNTER

\* after an abort the history holds no message for any call of the batch,
\* whatever the calls did
AbortedBatchLeavesNoMessage ==
  pc = "raised" =>
    /\ LastIsReply /\ Requested >= 1
    /\ raised # "InvalidUpdateError" =>
         \A i \in 1..Len(messages) :
           messages[i].type = "tool" => messages[i].tool_call_id \notin RequestedIds

\* while a batch is dispatched the session's values are untouched; order
\* ids that placements of the batch consumed stay consumed
BatchSideEffects ==
  /\ pc = "tools" => (validated_order = state.validated_order
                      /\ validation_result = state.validation_result)
  /\ ORDER_COUNTER = Cardinality(Placements)

\* C24: when a batch aborts (third failure in a row, or an unknown tool
\* name) none of its updates are applied: validated_order,
\* validation_result and the history are as they were before the batch,
\* also for the calls of the batch that had succeeded, while a placement
\* made by the batch and the order id it consumed remain.
C24_AbortDropsBatchUpdates ==
  /\ [][AbortAppliesNothing]_vars
  /\ [](AbortedBatchLeavesNoMessage /\ BatchSideEffects)

\* a batch placed the validated order and then aborted at an unknown tool:
\* the order id is consumed, the placement's message is not in the history
C24_Witness ==
  /\ pc = "raised" /\ raised = "ValueError"
  /\ Len(result) >= 1
  /\ \E i \in Placements : log[i].batch = replies /\ log[i].id \in RequestedIds
  /\ ORDER_COUNTER >= 1
  /\ \A i \in 1..Len(messages) :
       messages[i].type = "tool" => messages[i].tool_call_id \notin RequestedIds

====
